---- MODULE Spec2Model ----
(***************************************************************************)
(* A model of sdiff (maxmalkin/sdiff): the git integration (src/git.rs),   *)
(* the diff engine entry point (src/diff.rs) and the output options        *)
(* (src/output.rs).                                                        *)
(*                                                                         *)
(* Two specifications share the variables:                                 *)
(*   SpecLib  one call of a library function on an input drawn from a      *)
(*            bounded set (detect_git_diff_driver_args, is_null_file,      *)
(*            is_git_hash, DiffConfig::default, OutputOptions::default,    *)
(*            compute_diff);                                               *)
(*   Spec     the git operations install / uninstall / status acting on    *)
(*            the user's global git configuration through `git config`.    *)
(*                                                                         *)
(* A Rust String is a sequence of Unicode code points; str::len() is its   *)
(* UTF-8 byte length.                                                      *)
(***************************************************************************)
EXTENDS Integers, Sequences, FiniteSets, TLC

VARIABLES
    fn,       \* SpecLib: the library function called
    args,     \* SpecLib: its argument tuple
    ret,      \* SpecLib: what the call produced ([kind |-> "pending"] before)
    config,   \* Spec: the global git configuration, key -> sequence of values
    pre,      \* Spec: the configuration when the last operation started
    op,       \* Spec: the operation running or last run ("none" before the first)
    pc,       \* Spec: the number of the git invocation it makes next, 0 when idle
    exe,      \* Spec: what env::current_exe() gave the last operation
    log,      \* Spec: the git invocations of the last operation, in order
    result    \* Spec: what the last operation returned to its caller

libVars == <<fn, args, ret>>
gitVars == <<config, pre, op, pc, exe, log, result>>
vars == <<fn, args, ret, config, pre, op, pc, exe, log, result>>

(***************************************************************************)
(* Bounds of the model.                                                    *)
(***************************************************************************)
\* the longest argument list handed to detect_git_diff_driver_args
MaxArgs == 8
\* the longest array / widest object among the Nodes handed to compute_diff
MaxWidth == 1

(***************************************************************************)
(* Strings.                                                                *)
(***************************************************************************)
\* the UTF-8 encoded length of one char (char::len_utf8)
Utf8Len(c) == IF c < 128 THEN 1 ELSE IF c < 2048 THEN 2 ELSE IF c < 65536 THEN 3 ELSE 4

RECURSIVE StrLen(_)
\* str::len(): the length in bytes
StrLen(s) == IF s = <<>> THEN 0 ELSE Utf8Len(Head(s)) + StrLen(Tail(s))

\* char::is_ascii_hexdigit: '0'..='9' | 'A'..='F' | 'a'..='f'
is_ascii_hexdigit(c) ==
    \/ (48 <= c /\ c <= 57)
    \/ (65 <= c /\ c <= 70)
    \/ (97 <= c /\ c <= 102)

\* the length of a SHA-1 in hex digits
HashLen == 40

is_git_hash_decimal_only(s) ==
    StrLen(s) = HashLen /\ \A i \in 1..Len(s) : (48 <= s[i] /\ s[i] <= 57)

\* fn is_git_hash(s: &str) -> bool
is_git_hash(s) ==
    StrLen(s) = HashLen /\ \A i \in 1..Len(s) : is_ascii_hexdigit(s[i])

\* Option<(String, String)>
None == [kind |-> "None"]
Some(a, b) == [kind |-> "Some", old_file |-> a, new_file |-> b]

detect_wrong_positions(a) ==
    IF Len(a) /= 7 THEN None
    ELSE IF ~is_git_hash(a[3]) \/ ~is_git_hash(a[6]) THEN None
    ELSE Some(a[1], a[5])

\* pub fn detect_git_diff_driver_args(args: &[String]) -> Option<(String, String)>
\* (Rust indexes from 0: args[2], args[5] are a[3], a[6]; args[1], args[4] are
\* a[2], a[5])
detect_git_diff_driver_args(a) ==
    IF Len(a) /= 7 THEN None
    ELSE IF ~is_git_hash(a[3]) \/ ~is_git_hash(a[6]) THEN None
    ELSE Some(a[2], a[5])

\* the string literals of is_null_file
DevNull == <<47, 100, 101, 118, 47, 110, 117, 108, 108>>   \* "/dev/null"
NulLower == <<110, 117, 108>>                              \* "nul"
NulUpper == <<78, 85, 76>>                                 \* "NUL"

\* u8::to_ascii_lowercase on each char
AsciiLower(s) == [i \in 1..Len(s) |-> IF 65 <= s[i] /\ s[i] <= 90 THEN s[i] + 32 ELSE s[i]]

is_null_file_ignore_case(path) ==
    AsciiLower(path) = DevNull \/ AsciiLower(path) = NulLower

\* pub fn is_null_file(path: &str) -> bool
is_null_file(path) == path = DevNull \/ path = NulLower \/ path = NulUpper

(***************************************************************************)
(* The diff engine's types (src/diff.rs) and the output options            *)
(* (src/output.rs).                                                        *)
(***************************************************************************)
\* enum ChangeType
ChangeType == {"Added", "Removed", "Modified", "Unchanged"}

\* enum ArrayDiffStrategy
ArrayDiffStrategy == {"Positional"}

\* struct DiffConfig (its fields are public: any combination can be built)
DiffConfig ==
    [ignore_whitespace : BOOLEAN,
     treat_null_as_missing : BOOLEAN,
     array_diff_strategy : ArrayDiffStrategy]

DiffConfig_default_null_as_missing ==
    [ignore_whitespace |-> FALSE,
     treat_null_as_missing |-> TRUE,
     array_diff_strategy |-> "Positional"]

\* impl Default for DiffConfig
DiffConfig_default ==
    [ignore_whitespace |-> FALSE,
     treat_null_as_missing |-> FALSE,
     array_diff_strategy |-> "Positional"]

OutputOptions_default_context ==
    [compact |-> TRUE, show_values |-> FALSE, max_value_length |-> 80, context_lines |-> 3]

\* impl Default for OutputOptions
OutputOptions_default ==
    [compact |-> TRUE, show_values |-> FALSE, max_value_length |-> 80, context_lines |-> 0]

\* crate::tree::Node, the value tree: Null | Bool | Number | String | Array | Object
NullNode == [variant |-> "Null"]
BoolNode(b) == [variant |-> "Bool", value |-> b]
NumberNode(n) == [variant |-> "Number", value |-> n]
StringNode(s) == [variant |-> "String", value |-> s]
ArrayNode(items) == [variant |-> "Array", items |-> items]
ObjectNode(entries) == [variant |-> "Object", entries |-> entries]

\* a panic!: the call unwinds and returns nothing to its caller
Panic(message) == [kind |-> "panic", message |-> message]

\* pub fn compute_diff(_old: &Node, _new: &Node, _config: &DiffConfig) -> Diff
compute_diff(old, new, cfg) ==
    Panic("not implemented: diff module not yet implemented")

(***************************************************************************)
(* The inputs of SpecLib.                                                  *)
(***************************************************************************)
Rep(c, n) == [i \in 1..n |-> c]

\* "0123456789abcdefABCDEF"
HexDigits ==
    <<48, 49, 50, 51, 52, 53, 54, 55, 56, 57,
      97, 98, 99, 100, 101, 102, 65, 66, 67, 68, 69, 70>>

\* a SHA-1 in mixed-case hex, the all-zero hash, and strings that are not hashes
MixedHash == [i \in 1..HashLen |-> HexDigits[((i - 1) % Len(HexDigits)) + 1]]
ZeroHash == Rep(48, HashLen)
BadLastChar(c) == Rep(48, HashLen - 1) \o <<c>>
PathA == <<47, 116, 109, 112, 47, 97>>      \* "/tmp/a"
PathB == <<47, 116, 109, 112, 47, 98>>      \* "/tmp/b"
FileName == <<102, 46, 106, 115, 111, 110>> \* "f.json"
FileMode == <<49, 48, 48, 54, 52, 52>>      \* "100644"

\* the chars on both sides of each edge of the three hex ranges, and one
\* two-byte char
EdgeChars == {47, 48, 57, 58, 64, 65, 70, 71, 96, 97, 102, 103, 233}

HashInputs ==
    {MixedHash, ZeroHash, <<>>, PathA,
     Rep(48, HashLen - 1), Rep(48, HashLen + 1),
     Rep(233, HashLen \div 2),                  \* 20 chars, 40 bytes
     Rep(48, HashLen - 2) \o <<233>>}           \* 39 chars, 40 bytes
    \cup {BadLastChar(c) : c \in EdgeChars}

SmallPool == {MixedHash, ZeroHash, BadLastChar(103), PathA}

DetectInputs ==
    [1..7 -> SmallPool]
    \cup {<<FileName, PathA, x, FileMode, PathB, y, FileMode>> : x, y \in HashInputs}
    \cup UNION {[1..n -> {MixedHash, PathA}] : n \in (0..MaxArgs) \ {7}}

PathInputs ==
    {DevNull, NulLower, NulUpper, <<>>, PathA, FileName,
     <<78, 117, 108>>,                          \* "Nul"
     <<110, 85, 76>>,                           \* "nUL"
     <<110, 117, 108, 108>>,                    \* "null"
     <<110, 117>>,                              \* "nu"
     DevNull \o <<47>>,                         \* "/dev/null/"
     <<46>> \o DevNull,                         \* "./dev/null"
     <<47, 68, 69, 86, 47, 78, 85, 76, 76>>,    \* "/DEV/NULL"
     NulUpper \o <<32>>,                        \* "NUL "
     PathA \o DevNull}                          \* "/tmp/a/dev/null"

Leaves == {NullNode, BoolNode(TRUE), NumberNode(1), StringNode("a")}
Keys == <<"a", "b", "c">>
Nodes ==
    Leaves
    \cup UNION {{ArrayNode(items) : items \in [1..n -> Leaves]} : n \in 0..MaxWidth}
    \cup UNION {{ObjectNode([i \in 1..n |-> <<Keys[i], vals[i]>>]) : vals \in [1..n -> Leaves]}
                    : n \in 0..MaxWidth}

Pending == [kind |-> "pending"]
Bool(b) == [kind |-> "bool", value |-> b]
Value(v) == [kind |-> "value", value |-> v]

(***************************************************************************)
(* The git integration (src/git.rs).                                       *)
(*                                                                         *)
(* The global git configuration maps each key to the sequence of values    *)
(* it holds (git allows a key several values); <<>> is an unset key.       *)
(* Every `git` invocation has an outcome the process does not control:     *)
(*   "none"     git runs on the configuration as documented;               *)
(*   "spawn"    the process cannot be started (git not in PATH);           *)
(*   "signal"   git is killed by a signal (no exit code);                  *)
(*   "exit<n>"  git fails with exit code n: 3 the config file is invalid,  *)
(*              4 it cannot be written, 128 git dies, 255 it is locked.    *)
(***************************************************************************)
\* how many values one key may hold in the configuration found at the start
MaxValues == 2

CmdKey == "difftool.sdiff.cmd"
PromptKey == "difftool.sdiff.prompt"
CommandKey == "diff.sdiff.command"
SdiffKeys == {CmdKey, PromptKey, CommandKey}
OtherKey == "user.name"
ConfigKeys == SdiffKeys \cup {OtherKey}

WriteFaults == {"none", "spawn", "signal", "exit3", "exit4", "exit128", "exit255"}
ReadFaults == {"none", "spawn", "exit128"}

\* std::process::ExitStatus and the io::Result<Output> of Command::output()
Exited(code) == [exited |-> TRUE, code |-> code]
Killed == [exited |-> FALSE]
SpawnError == [started |-> FALSE]
Output(status, stdout, stderr) ==
    [started |-> TRUE, status |-> status, stdout |-> stdout, stderr |-> stderr]
\* ExitStatus::success()
success(status) == status = Exited(0)

\* what a git invocation does when it cannot do its work
Faulty(cfg, fault) ==
    [cfg |-> cfg,
     out |-> CASE fault = "spawn" -> SpawnError
               [] fault = "signal" -> Output(Killed, "", "")
               [] fault = "exit3" -> Output(Exited(3), "", "fatal: bad config file")
               [] fault = "exit4" -> Output(Exited(4), "", "error: could not write config file")
               [] fault = "exit128" -> Output(Exited(128), "", "fatal: unable to read config file")
               [] fault = "exit255" -> Output(Exited(255), "", "error: could not lock config file")]

\* git config --global <key> <value>
GitConfigSet(cfg, key, value, fault) ==
    IF fault /= "none" THEN Faulty(cfg, fault)
    ELSE IF Len(cfg[key]) <= 1
    THEN [cfg |-> [cfg EXCEPT ![key] = <<value>>], out |-> Output(Exited(0), "", "")]
    ELSE [cfg |-> cfg,
          out |-> Output(Exited(5), "", "warning: key has multiple values")]

\* git config --global --unset <key>
GitConfigUnset(cfg, key, fault) ==
    IF fault /= "none" THEN Faulty(cfg, fault)
    ELSE IF Len(cfg[key]) = 1
    THEN [cfg |-> [cfg EXCEPT ![key] = <<>>], out |-> Output(Exited(0), "", "")]
    ELSE IF Len(cfg[key]) = 0
    THEN [cfg |-> cfg, out |-> Output(Exited(5), "", "")]
    ELSE [cfg |-> cfg,
          out |-> Output(Exited(5), "", "warning: key has multiple values")]

\* git config --global --get <key>: the last value of the key
GitConfigGet(cfg, key, fault) ==
    IF fault /= "none" THEN Faulty(cfg, fault)
    ELSE IF Len(cfg[key]) = 0
    THEN [cfg |-> cfg, out |-> Output(Exited(1), "", "")]
    ELSE [cfg |-> cfg, out |-> Output(Exited(0), cfg[key][Len(cfg[key])], "")]

\* GitResult<T>
Ok(v) == [ok |-> TRUE, value |-> v]
Err(e, message) == [ok |-> FALSE, err |-> e, message |-> message]
Unit == "()"

\* an OS path is a sequence of chunks, each valid UTF-8 text or bytes that
\* are not; OsStr::to_string_lossy() replaces the latter by U+FFFD
Utf8(text) == <<"utf8", text>>
NotUtf8(bytes) == <<"bytes", bytes>>
RECURSIVE to_string_lossy(_)
to_string_lossy(p) ==
    IF p = <<>> THEN ""
    ELSE (IF Head(p)[1] = "utf8" THEN Head(p)[2] ELSE "U+FFFD") \o to_string_lossy(Tail(p))

\* fn get_executable_path() -> GitResult<String>; e is env::current_exe()
get_executable_path(e) ==
    IF e.ok THEN Ok(to_string_lossy(e.value)) ELSE Err("ExecutableNotFound", "")

\* one entry of the log: the command line, what befell git and what came of it
Invocation(cmd, key, value, fault, out) ==
    [cmd |-> cmd, key |-> key, value |-> value, fault |-> fault, out |-> out]

\* fn run_git_config(key: &str, value: &str) -> GitResult<()>
run_git_config(cfg, key, value, fault) ==
    LET g == GitConfigSet(cfg, key, value, fault)
        res == IF ~g.out.started THEN Err("GitNotFound", "")
               ELSE IF ~success(g.out.status) THEN Err("GitError", g.out.stderr)
               ELSE Ok(Unit)
    IN  [cfg |-> g.cfg, res |-> res, log |-> <<Invocation("set", key, value, fault, g.out)>>]

run_git_config_unset_strict(cfg, key, fault) ==
    LET g == GitConfigUnset(cfg, key, fault)
        res == IF ~g.out.started THEN Err("GitNotFound", "")
               ELSE IF ~success(g.out.status) THEN Err("GitError", g.out.stderr)
               ELSE Ok(Unit)
    IN  [cfg |-> g.cfg, res |-> res, log |-> <<Invocation("unset", key, "", fault, g.out)>>]

\* fn run_git_config_unset(key: &str) -> GitResult<()>
run_git_config_unset(cfg, key, fault) ==
    LET g == GitConfigUnset(cfg, key, fault)
        res == IF ~g.out.started THEN Err("GitNotFound", "")
               ELSE IF ~success(g.out.status) /\ g.out.status /= Exited(5)
               THEN Err("GitError", g.out.stderr)
               ELSE Ok(Unit)
    IN  [cfg |-> g.cfg, res |-> res, log |-> <<Invocation("unset", key, "", fault, g.out)>>]

\* fn get_git_config(key: &str) -> GitResult<String>
get_git_config(cfg, key, fault) ==
    LET g == GitConfigGet(cfg, key, fault)
        res == IF ~g.out.started THEN Err("GitNotFound", "")
               ELSE IF ~success(g.out.status) THEN Err("GitError", "Key not found")
               ELSE Ok(g.out.stdout)
    IN  [cfg |-> g.cfg, res |-> res, log |-> <<Invocation("get", key, "", fault, g.out)>>]

install_calls_swapped(sdiff_path) ==
    <<<<CmdKey, sdiff_path>>,
      <<CommandKey, sdiff_path \o " \"$LOCAL\" \"$REMOTE\"">>,
      <<PromptKey, "false">>>>

\* the run_git_config(key, value)? calls of install(), in order
install_calls(sdiff_path) ==
    <<<<CmdKey, sdiff_path \o " \"$LOCAL\" \"$REMOTE\"">>,
      <<CommandKey, sdiff_path>>,
      <<PromptKey, "false">>>>

\* the run_git_config_unset(key)? calls of uninstall(), in order
uninstall_keys == <<CmdKey, PromptKey, CommandKey>>

\* the get_git_config(key) calls of status(), in order: the three it prints,
\* then the two of has_config (the second is evaluated only when the first
\* is an Err)
status_keys == <<CmdKey, PromptKey, CommandKey, CmdKey, CommandKey>>

(***************************************************************************)
(* SpecLib: one call of a library function.                                *)
(***************************************************************************)
EmptyConfig == [k \in ConfigKeys |-> <<>>]
NoExe == [ok |-> FALSE]

\* the git side, untouched by SpecLib
GitIdle ==
    /\ pre = config
    /\ op = "none"
    /\ pc = 0
    /\ exe = NoExe
    /\ log = <<>>
    /\ result = Ok(Unit)

\* the library side, untouched by Spec
LibIdle ==
    /\ fn = "none"
    /\ args = <<>>
    /\ ret = Pending

InitLib ==
    /\ \/ fn = "detect_git_diff_driver_args" /\ args \in {<<a>> : a \in DetectInputs}
       \/ fn = "is_git_hash" /\ args \in {<<s>> : s \in HashInputs}
       \/ fn = "is_null_file" /\ args \in {<<p>> : p \in PathInputs}
       \/ fn = "DiffConfig::default" /\ args = <<>>
       \/ fn = "OutputOptions::default" /\ args = <<>>
       \/ fn = "compute_diff" /\ args \in Nodes \X Nodes \X DiffConfig
    /\ ret = Pending
    /\ config = EmptyConfig
    /\ GitIdle

Return(f, value) ==
    /\ fn = f
    /\ ret = Pending
    /\ ret' = value
    /\ UNCHANGED <<fn, args, gitVars>>

CallDetect == Return("detect_git_diff_driver_args", detect_git_diff_driver_args(args[1]))

CallIsGitHash == Return("is_git_hash", Bool(is_git_hash(args[1])))

CallIsNullFile == Return("is_null_file", Bool(is_null_file(args[1])))

CallDiffConfigDefault == Return("DiffConfig::default", Value(DiffConfig_default))

CallOutputOptionsDefault == Return("OutputOptions::default", Value(OutputOptions_default))

CallComputeDiff == Return("compute_diff", compute_diff(args[1], args[2], args[3]))

NextLib ==
    \/ CallDetect
    \/ CallIsGitHash
    \/ CallIsNullFile
    \/ CallDiffConfigDefault
    \/ CallOutputOptionsDefault
    \/ CallComputeDiff

SpecLib == InitLib /\ [][NextLib]_vars

(***************************************************************************)
(* Spec: install, uninstall and status on the global git configuration.    *)
(* An operation runs one git process after the other; pc is the number of  *)
(* the invocation it makes next, 0 when no operation is running.           *)
(***************************************************************************)
\* the values a key may hold before sdiff touches the configuration
OldValues == <<"old", "older", "oldest">>
ValueLists == {[i \in 1..n |-> OldValues[((i - 1) % Len(OldValues)) + 1]] : n \in 0..MaxValues}

\* what env::current_exe() may give
ExeResults ==
    {NoExe,
     Ok(<<Utf8("/usr/bin/sdiff")>>),
     Ok(<<Utf8("/home/"), NotUtf8("FF"), Utf8("/bin/sdiff")>>)}

Init ==
    /\ config \in [ConfigKeys -> ValueLists]
    /\ GitIdle
    /\ LibIdle

\* install() starts: get_executable_path()?
InstallBegin ==
    /\ pc = 0
    /\ \E e \in ExeResults :
        /\ exe' = e
        /\ IF get_executable_path(e).ok
           THEN pc' = 1 /\ result' = Pending
           ELSE pc' = 0 /\ result' = get_executable_path(e)
    /\ op' = "install"
    /\ pre' = config
    /\ log' = <<>>
    /\ UNCHANGED <<config, libVars>>

\* the next run_git_config(..)? of install(), then Ok(()) after the last
InstallStep ==
    /\ op = "install"
    /\ pc >= 1
    /\ \E fault \in WriteFaults :
        LET calls == install_calls(get_executable_path(exe).value)
            r == run_git_config(config, calls[pc][1], calls[pc][2], fault)
        IN  /\ config' = r.cfg
            /\ log' = log \o r.log
            /\ IF ~r.res.ok THEN pc' = 0 /\ result' = r.res
               ELSE IF pc = Len(calls) THEN pc' = 0 /\ result' = Ok(Unit)
               ELSE pc' = pc + 1 /\ UNCHANGED result
    /\ UNCHANGED <<pre, op, exe, libVars>>

\* uninstall() starts
UninstallBegin ==
    /\ pc = 0
    /\ pc' = 1
    /\ op' = "uninstall"
    /\ pre' = config
    /\ exe' = NoExe
    /\ log' = <<>>
    /\ result' = Pending
    /\ UNCHANGED <<config, libVars>>

\* the next run_git_config_unset(..)? of uninstall(), then Ok(()) after the last
UninstallStep ==
    /\ op = "uninstall"
    /\ pc >= 1
    /\ \E fault \in WriteFaults :
        LET r == run_git_config_unset(config, uninstall_keys[pc], fault)
        IN  /\ config' = r.cfg
            /\ log' = log \o r.log
            /\ IF ~r.res.ok THEN pc' = 0 /\ result' = r.res
               ELSE IF pc = Len(uninstall_keys) THEN pc' = 0 /\ result' = Ok(Unit)
               ELSE pc' = pc + 1 /\ UNCHANGED result
    /\ UNCHANGED <<pre, op, exe, libVars>>

\* status() starts
StatusBegin ==
    /\ pc = 0
    /\ pc' = 1
    /\ op' = "status"
    /\ pre' = config
    /\ exe' = NoExe
    /\ log' = <<>>
    /\ result' = Pending
    /\ UNCHANGED <<config, libVars>>

\* the next get_git_config(..) of status(): Ok and Err are both matched and
\* printed, is_ok() of the fourth decides whether the fifth is made, and
\* status() ends with Ok(())
StatusStep ==
    /\ op = "status"
    /\ pc >= 1
    /\ \E fault \in ReadFaults :
        LET r == get_git_config(config, status_keys[pc], fault)
            has_config == r.res.ok
        IN  /\ config' = r.cfg
            /\ log' = log \o r.log
            /\ IF pc = Len(status_keys) \/ (pc = Len(status_keys) - 1 /\ has_config)
               THEN pc' = 0 /\ result' = Ok(Unit)
               ELSE pc' = pc + 1 /\ UNCHANGED result
    /\ UNCHANGED <<pre, op, exe, libVars>>

Next ==
    \/ InstallBegin
    \/ InstallStep
    \/ UninstallBegin
    \/ UninstallStep
    \/ StatusBegin
    \/ StatusStep

Spec == Init /\ [][Next]_vars

(***************************************************************************)
(* Claims about the library functions, checked under SpecLib.              *)
(***************************************************************************)
Returned(f) == fn = f /\ ret /= Pending

\* exactly 40 chars, each one of 0-9, a-f, A-F
IsHex40(s) ==
    /\ Len(s) = 40
    /\ \A i \in 1..Len(s) : s[i] \in (48..57) \cup (65..70) \cup (97..102)

\* C1: detect_git_diff_driver_args(args) returns Some if and only if args has
\* exactly 7 elements and args[2] and args[5] are both strings of exactly 40
\* ASCII hex digits; otherwise it returns None.
C1_DetectIff ==
    Returned("detect_git_diff_driver_args") =>
        LET a == args[1]
        IN  /\ ret.kind \in {"Some", "None"}
            /\ ret.kind = "Some" <=> (Len(a) = 7 /\ IsHex40(a[3]) /\ IsHex40(a[6]))

\* a detected invocation whose old blob is the all-zero hash
C1_Witness ==
    /\ Returned("detect_git_diff_driver_args")
    /\ ret.kind = "Some"
    /\ args[1][3] = Rep(48, 40)
    /\ args[1][6] /= Rep(48, 40)

\* C2: when the 7-argument invocation is detected, the pair returned is
\* exactly (args[1], args[4]), unchanged and in that order.
C2_DetectedPair ==
    (Returned("detect_git_diff_driver_args") /\ ret.kind = "Some") =>
        ret = [kind |-> "Some", old_file |-> args[1][2], new_file |-> args[1][5]]

\* a detected invocation whose old and new file differ from each other and
\* from the path, hash and mode arguments
C2_Witness ==
    /\ Returned("detect_git_diff_driver_args")
    /\ ret.kind = "Some"
    /\ LET a == args[1]
       IN  /\ a[2] /= a[5]
           /\ \A i \in {1, 3, 4, 6, 7} : a[i] /= a[2] /\ a[i] /= a[5]

\* the tally of one change_type over a Vec<Change>
CountType(changes, t) == Cardinality({i \in 1..Len(changes) : changes[i].change_type = t})

\* C5: compute_diff never fails: every call returns a Diff.
C5_ComputeDiffTotal ==
    Returned("compute_diff") => ret.kind = "Diff"

C7_IsNullFile ==
    Returned("is_null_file") =>
        ret = Bool(args[1] \in {<<47, 100, 101, 118, 47, 110, 117, 108, 108>>,
                                <<110, 117, 108>>,
                                <<78, 85, 76>>})

\* is_null_file("Nul") is false
C7_Witness ==
    /\ Returned("is_null_file")
    /\ args[1] = <<78, 117, 108>>
    /\ ret = Bool(FALSE)

\* C8: DiffConfig::default() has ignore_whitespace = false,
\* treat_null_as_missing = false and array_diff_strategy = Positional.
C8_DiffConfigDefault ==
    Returned("DiffConfig::default") =>
        /\ ret.value.ignore_whitespace = FALSE
        /\ ret.value.treat_null_as_missing = FALSE
        /\ ret.value.array_diff_strategy = "Positional"

C8_Witness == Returned("DiffConfig::default") /\ ret.value \in DiffConfig

\* C9: OutputOptions::default() has max_value_length = 80, context_lines = 0,
\* compact = true and show_values = false.
C9_OutputOptionsDefault ==
    Returned("OutputOptions::default") =>
        /\ ret.value.max_value_length = 80
        /\ ret.value.context_lines = 0
        /\ ret.value.compact = TRUE
        /\ ret.value.show_values = FALSE

C9_Witness ==
    /\ Returned("OutputOptions::default")
    /\ DOMAIN ret.value = {"compact", "show_values", "max_value_length", "context_lines"}

(***************************************************************************)
(* Claims about the git operations, checked under Spec.                    *)
(***************************************************************************)
Finished(name) == op = name /\ pc = 0

\* a git invocation that could not be started or exited with failure, other
\* than an unset that exited with the key-not-found code
InvocationFailed(entry) ==
    \/ ~entry.out.started
    \/ /\ ~success(entry.out.status)
       /\ ~(entry.cmd = "unset" /\ entry.out.status = Exited(5))

\* C3: install, uninstall and status return an Err whenever a git invocation
\* cannot be started, a git command exits with failure (other than key not
\* found on an unset) or the executable path lookup fails.
C3_ErrorsReported ==
    \A name \in {"install", "uninstall", "status"} :
        (/\ Finished(name)
         /\ \/ (name = "install" /\ ~exe.ok)
            \/ \E i \in 1..Len(log) : InvocationFailed(log[i]))
        => ~result.ok

\* the i-th run_git_config_unset of the running or finished uninstall()
\* returned Ok: uninstall() went on after it
UnsetReturnedOk(i) == i < Len(log) \/ pc /= 0 \/ result.ok

\* C4: run_git_config_unset returns Ok when git exits successfully or with
\* code 5, Err(GitError) for every other exit and Err(GitNotFound) when git
\* cannot be run; so uninstall() on a configuration holding none of the three
\* sdiff keys, with git doing its work, returns Ok and leaves the
\* configuration unchanged.
C4_UnsetKeyNotFoundIsSuccess ==
    op = "uninstall" =>
        /\ \A i \in 1..Len(log) :
            LET out == log[i].out
            IN  IF ~out.started
                THEN ~UnsetReturnedOk(i) /\ result.err = "GitNotFound"
                ELSE IF out.status = Exited(0) \/ out.status = Exited(5)
                THEN UnsetReturnedOk(i)
                ELSE ~UnsetReturnedOk(i) /\ result.err = "GitError"
        /\ (/\ pc = 0
            /\ \A k \in SdiffKeys : pre[k] = <<>>
            /\ \A i \in 1..Len(log) : log[i].fault = "none")
           => (result.ok /\ config = pre /\ Len(log) = 3)

\* uninstall() has returned Ok on a configuration without the three keys,
\* after three unsets that each exited with code 5
C4_Witness ==
    /\ Finished("uninstall")
    /\ \A k \in SdiffKeys : pre[k] = <<>>
    /\ pre[OtherKey] /= <<>>
    /\ Len(log) = 3
    /\ \A i \in 1..Len(log) : log[i].out.started /\ log[i].out.status = Exited(5)
    /\ result.ok

\* C10: whenever install() returns Ok, from any prior configuration, the
\* three keys are set (difftool.sdiff.cmd to the executable path followed by
\* ' "$LOCAL" "$REMOTE"', diff.sdiff.command to the executable path,
\* difftool.sdiff.prompt to "false") and no other key is written.
C10_InstallSetsThreeKeys ==
    (Finished("install") /\ result.ok) =>
        LET path == to_string_lossy(exe.value)
        IN  /\ config = [pre EXCEPT !["difftool.sdiff.cmd"] = <<path \o " \"$LOCAL\" \"$REMOTE\"">>,
                                    !["diff.sdiff.command"] = <<path>>,
                                    !["difftool.sdiff.prompt"] = <<"false">>]
            /\ \A i \in 1..Len(log) :
                log[i].key \in {"difftool.sdiff.cmd", "diff.sdiff.command", "difftool.sdiff.prompt"}

\* install() has returned Ok on a configuration that held other values for
\* the three keys and a value for another key
C10_Witness ==
    /\ Finished("install")
    /\ result.ok
    /\ exe.value = <<Utf8("/usr/bin/sdiff")>>
    /\ config["difftool.sdiff.cmd"] = <<"/usr/bin/sdiff \"$LOCAL\" \"$REMOTE\"">>
    /\ \A k \in SdiffKeys : pre[k] = <<"old">>
    /\ pre[OtherKey] /= <<>>

\* C11: whenever uninstall() returns Ok, from any prior configuration, none
\* of difftool.sdiff.cmd, difftool.sdiff.prompt and diff.sdiff.command is set
\* and every other key is unchanged.
C11_UninstallRemovesKeys ==
    (Finished("uninstall") /\ result.ok) =>
        /\ \A k \in {"difftool.sdiff.cmd", "difftool.sdiff.prompt", "diff.sdiff.command"} :
            config[k] = <<>>
        /\ \A k \in ConfigKeys \ {"difftool.sdiff.cmd", "difftool.sdiff.prompt", "diff.sdiff.command"} :
            config[k] = pre[k]

\* C12: install() writes difftool.sdiff.cmd, then diff.sdiff.command, then
\* difftool.sdiff.prompt, and uninstall() unsets difftool.sdiff.cmd, then
\* difftool.sdiff.prompt, then diff.sdiff.command; each stops at the first
\* failure and returns Err without rollback: the keys of the steps before the
\* failed step k have been written (install) or unset (uninstall), the keys
\* of step k and of every later step are as they were, and install changes
\* no key when the executable path lookup fails.
C12_OrderedNoRollback ==
    \A name \in {"install", "uninstall"} :
        op = name =>
            LET order == IF name = "install"
                         THEN <<"difftool.sdiff.cmd", "diff.sdiff.command", "difftool.sdiff.prompt">>
                         ELSE <<"difftool.sdiff.cmd", "difftool.sdiff.prompt", "diff.sdiff.command">>
                path == IF exe.ok THEN to_string_lossy(exe.value) ELSE ""
                written == <<path \o " \"$LOCAL\" \"$REMOTE\"", path, "false">>
                applied(j) == IF name = "install"
                              THEN config[order[j]] = <<written[j]>>
                              ELSE config[order[j]] = <<>>
                k == Len(log)
            IN  /\ k <= 3
                /\ \A i \in 1..k :
                    /\ log[i].cmd = (IF name = "install" THEN "set" ELSE "unset")
                    /\ log[i].key = order[i]
                    /\ i < k => ~InvocationFailed(log[i])
                /\ pc = 0 =>
                    IF name = "install" /\ ~exe.ok
                    THEN ~result.ok /\ k = 0 /\ config = pre
                    ELSE IF InvocationFailed(log[k])
                    THEN /\ ~result.ok
                         /\ \A j \in 1..(k - 1) : applied(j)
                         /\ \A j \in k..3 : config[order[j]] = pre[order[j]]
                         /\ \A key \in ConfigKeys :
                                (\A j \in 1..3 : key /= order[j]) => config[key] = pre[key]
                    ELSE result.ok /\ k = 3

====
